---- MODULE Spec2Model ----
(***************************************************************************)
(* A model of the FidoNet packet indexer (src/pkt_indexer.py): the binary  *)
(* packet decoder, the body heuristics, the SQLite record store and the    *)
(* import run of main().                                                   *)
(*                                                                         *)
(* Bytes and characters are integers 0..255 (the decoder reads bytes and   *)
(* decodes them as latin-1, which maps byte b to code point b).  Offsets   *)
(* are 0-based as in the source; the k-th byte of data is data[k + 1].     *)
(***************************************************************************)
EXTENDS Integers, Sequences, FiniteSets, TLC

VARIABLES
    \* ---- one call of parse_pkt_file, stepped one loop iteration at a time
    pkt_path,      \* the path argument
    data,          \* pkt_path.read_bytes()
    off,           \* the cursor
    results,       \* the list of message dicts built so far
    msg_index,     \* the counter of decoded messages
    dpc,           \* "start", "loop", "done" (returned), "error" (raised)
    ret,           \* what the caller receives: [ok, records, err]
    \* ---- the import run of main() and what it acts on
    fs,            \* the folder: path -> file content, or Absent
    rows,          \* the committed rows of table pkt_messages
    seq,           \* sqlite_sequence of pkt_messages (AUTOINCREMENT)
    schema,        \* [exists, cols, has_meta, version] of the store file
    now,           \* the store's clock, datetime('now'), one tick per run
    pc,            \* "idle", "loop", "done", "crashed"
    args,          \* [test, delete] of the current run
    pkt_files,     \* sorted(folder.glob(pattern)) of the current run
    idx,           \* position of the for loop in pkt_files (1-based)
    totals,        \* [msgs, inserted, files]: total_msgs, total_inserted, processed_files
    log,           \* the lines printed by the current run, one record per file
    events,        \* number of runs started and files delivered so far
    imported,      \* history: the paths whose present content an insert has seen
    \* ---- the body heuristics applied to one body text
    body,          \* the decoded body text
    body_stats,    \* what analyse_body returned: (msg_lines, pct_quoted)
    body_echo,     \* what extract_echo returned
    bpc,           \* which of the two has returned: a subset of {"stats", "echo"}
    \* ---- the programs that open one store file
    tool,          \* the program that ran last: "indexer", "report", "check"
    before,        \* history: [schema, rows] of the store before that run
    \* ---- init_db and the report generator, one SQL statement at a time
    ipc,           \* the statement init_db is at: "idle", "tables", ..., "done", "failed"
    rpc,           \* the statement the report generator is at
    lock,          \* the holder of the store's write lock: "none", "indexer", "report"
    txn,           \* the store as the lock holder's open transaction has it
    marks          \* history: the values the marker held while statements ran

dvars == <<pkt_path, data, off, results, msg_index, dpc, ret>>
mvars == <<fs, rows, seq, schema, now, pc, args, pkt_files, idx, totals, log, events,
          imported>>
bvars == <<body, body_stats, body_echo, bpc>>
tvars == <<tool, before>>
cvars == <<ipc, rpc, lock, txn, marks>>
vars == <<pkt_path, data, off, results, msg_index, dpc, ret,
          fs, rows, seq, schema, now, pc, args, pkt_files, idx, totals, log, events,
          imported, body, body_stats, body_echo, bpc, tool, before,
          ipc, rpc, lock, txn, marks>>

\* Python's None where the value is otherwise text or a number pair: a
\* sequence that is no text (character codes are never negative)
None == <<-1>>

\* the content of a path that holds no file
Absent == <<-2>>

\* no exception
NoError == "none"

\* no row schema_version in table meta
NoVersion == "none"

(***************************************************************************)
(* Text helpers: Python's str methods on latin-1 decoded text.             *)
(***************************************************************************)

\* F(e) with the argument e evaluated once, before the call, as Python
\* evaluates the arguments of a call
CallByValue(F(_), e) == CHOOSE r \in {F(v) : v \in {e}} : TRUE

\* str.isspace() for code points below 256 (also what \s matches in re)
Whitespace == {9, 10, 11, 12, 13, 28, 29, 30, 31, 32, 133, 160}

\* the line boundaries of str.splitlines() below 256
LineBreaks == {10, 11, 12, 13, 28, 29, 30, 133}

Digits == 48..57

RECURSIVE lstrip(_)
lstrip(s) ==
    IF s # <<>> /\ Head(s) \in Whitespace THEN lstrip(Tail(s)) ELSE s

RECURSIVE rstrip(_)
rstrip(s) ==
    IF s # <<>> /\ s[Len(s)] \in Whitespace
    THEN rstrip(SubSeq(s, 1, Len(s) - 1)) ELSE s

strip(s) == CallByValue(rstrip, lstrip(s))

\* str.upper() of one character, for the characters whose upper case is
\* again one latin-1 letter of the ASCII range (all that "AREA:" can match)
Upper(c) == IF c \in 97..122 THEN c - 32 ELSE c

Lower(c) == IF c \in 65..90 THEN c + 32 ELSE c

\* s.startswith(p)
startswith(s, p) == Len(s) >= Len(p) /\ SubSeq(s, 1, Len(p)) = p

\* s[n:]
From(s, n) == SubSeq(s, n + 1, Len(s))

\* the scan of splitlines() at position i: cur is the line being read, acc
\* the lines read
Split(i, cur, acc) == [i |-> i, cur |-> cur, acc |-> acc]

RECURSIVE SplitFrom(_, _)
SplitFrom(s, sp) ==
    CallByValue(
        LAMBDA v :
            IF v.i > Len(s) THEN (IF v.cur # <<>> THEN Append(v.acc, v.cur) ELSE v.acc)
            ELSE IF s[v.i] \in LineBreaks
                 THEN LET n == IF s[v.i] = 13 /\ v.i < Len(s) /\ s[v.i + 1] = 10
                               THEN 2 ELSE 1
                      IN  SplitFrom(s, Split(v.i + n, <<>>, Append(v.acc, v.cur)))
                 ELSE SplitFrom(s, Split(v.i + 1, Append(v.cur, s[v.i]), v.acc)),
        sp)

\* str.splitlines(): a trailing line break opens no further line
splitlines(s) == CallByValue(LAMBDA v : SplitFrom(v, Split(1, <<>>, <<>>)), s)

\* lines[:n]
Take(xs, n) == SubSeq(xs, 1, IF Len(xs) < n THEN Len(xs) ELSE n)

(***************************************************************************)
(* Date Normalizer: parse_fido_datetime.  datetime.strptime turns a format *)
(* into a regular expression that must match the whole string: a run of    *)
(* blanks in the format is \s+, %d %H %M %S are one or two digits, %y is   *)
(* two digits, %Y four, %b a month abbreviation in any letter case; the    *)
(* fields found must then form a valid datetime.                           *)
(***************************************************************************)

\* number of consecutive digits of s from position p (1-based)
RECURSIVE DigLen(_, _)
DigLen(s, p) ==
    IF p <= Len(s) /\ s[p] \in Digits THEN 1 + DigLen(s, p + 1) ELSE 0

\* first position >= p of s that holds no whitespace
RECURSIVE SkipWs(_, _)
SkipWs(s, p) ==
    IF p <= Len(s) /\ s[p] \in Whitespace THEN SkipWs(s, p + 1) ELSE p

\* value of the n digits of s at position p
RECURSIVE Num(_, _, _)
Num(s, p, n) ==
    IF n = 0 THEN 0 ELSE 10 * Num(s, p, n - 1) + (s[p + n - 1] - 48)

\* "jan" .. "dec" as lower-case character codes, in calendar order
MonthNames ==
    << <<106, 97, 110>>, <<102, 101, 98>>, <<109, 97, 114>>, <<97, 112, 114>>,
       <<109, 97, 121>>, <<106, 117, 110>>, <<106, 117, 108>>, <<97, 117, 103>>,
       <<115, 101, 112>>, <<111, 99, 116>>, <<110, 111, 118>>, <<100, 101, 99>> >>

\* month number of the three letters of s at p, 0 when they name no month
MonthAt(s, p) ==
    IF p + 2 > Len(s) THEN 0
    ELSE LET w == <<Lower(s[p]), Lower(s[p + 1]), Lower(s[p + 2])>>
         IN  IF \E m \in 1..12 : MonthNames[m] = w
             THEN CHOOSE m \in 1..12 : MonthNames[m] = w ELSE 0

IsLeap(y) == (y % 4 = 0) /\ ((y % 100 # 0) \/ (y % 400 = 0))

DaysInMonth(y, m) ==
    IF m = 2 THEN (IF IsLeap(y) THEN 29 ELSE 28)
    ELSE IF m \in {4, 6, 9, 11} THEN 30 ELSE 31

\* n as w decimal digits, zero filled
RECURSIVE Pad(_, _)
Pad(n, w) == IF w = 0 THEN <<>> ELSE Append(Pad(n \div 10, w - 1), 48 + (n % 10))

\* datetime.isoformat(sep=" ") of a datetime without microseconds
isoformat(y, m, d, hh, mm, ss) ==
    Pad(y, 4) \o <<45>> \o Pad(m, 2) \o <<45>> \o Pad(d, 2) \o <<32>>
      \o Pad(hh, 2) \o <<58>> \o Pad(mm, 2) \o <<58>> \o Pad(ss, 2)

\* The scanner of strptime: p is the next position of raw to match, ok
\* turns FALSE when the pattern cannot match, vals are the fields found.
Scan(p, ok, vals) == [p |-> p, ok |-> ok, vals |-> vals]

\* one or two digits not followed by a further digit: %d, %H, %M, %S
ScanNum(raw, sc, digits) ==
    CallByValue(
        LAMBDA v :
            IF v.ok /\ DigLen(raw, v.p) \in digits
            THEN Scan(v.p + DigLen(raw, v.p), TRUE,
                      Append(v.vals, Num(raw, v.p, DigLen(raw, v.p))))
            ELSE Scan(v.p, FALSE, v.vals),
        sc)

\* \s+
ScanWs(raw, sc) ==
    CallByValue(
        LAMBDA v :
            IF v.ok /\ SkipWs(raw, v.p) > v.p
            THEN Scan(SkipWs(raw, v.p), TRUE, v.vals)
            ELSE Scan(v.p, FALSE, v.vals),
        sc)

\* %b
ScanMonth(raw, sc) ==
    CallByValue(
        LAMBDA v :
            IF v.ok /\ MonthAt(raw, v.p) # 0
            THEN Scan(v.p + 3, TRUE, Append(v.vals, MonthAt(raw, v.p)))
            ELSE Scan(v.p, FALSE, v.vals),
        sc)

\* ":"
ScanColon(raw, sc) ==
    CallByValue(
        LAMBDA v :
            IF v.ok /\ v.p <= Len(raw) /\ raw[v.p] = 58
            THEN Scan(v.p + 1, TRUE, v.vals)
            ELSE Scan(v.p, FALSE, v.vals),
        sc)

\* the century of a two-digit year (%y)
FullYear(y0, ydigits) ==
    IF ydigits = 2 THEN (IF y0 < 69 THEN 2000 + y0 ELSE 1900 + y0) ELSE y0

\* the whole string matched and the fields <<d, b, y, H, M, S>> are a datetime
ScanEnd(raw, sc, ydigits) ==
    CallByValue(
        LAMBDA v :
            IF /\ v.ok /\ v.p = Len(raw) + 1
               /\ FullYear(v.vals[3], ydigits) >= 1
               /\ v.vals[1] >= 1
               /\ v.vals[1] <= DaysInMonth(FullYear(v.vals[3], ydigits), v.vals[2])
               /\ v.vals[4] <= 23 /\ v.vals[5] <= 59 /\ v.vals[6] <= 59
            THEN isoformat(FullYear(v.vals[3], ydigits), v.vals[2], v.vals[1],
                           v.vals[4], v.vals[5], v.vals[6])
            ELSE None,
        sc)

\* "%d %b %y" (or "%Y"): day, blanks, month, blanks, year
ScanDate(raw, ydigits) ==
    ScanNum(raw,
            ScanWs(raw, ScanMonth(raw, ScanWs(raw,
                ScanNum(raw, Scan(1, TRUE, <<>>), {1, 2})))),
            {ydigits})

\* "  %H:%M:%S" behind the date scanned in sc
ScanTime(raw, sc) ==
    ScanNum(raw,
            ScanColon(raw,
                ScanNum(raw,
                        ScanColon(raw, ScanNum(raw, ScanWs(raw, sc), {1, 2})),
                        {1, 2})),
            {1, 2})

\* datetime.strptime(raw, "%d %b %y  %H:%M:%S").isoformat(sep=" ") with
\* ydigits = 2, and with "%Y" for ydigits = 4; None stands for the ValueError
strptime(raw, ydigits) ==
    CallByValue(LAMBDA v : ScanEnd(v, ScanTime(v, ScanDate(v, ydigits)), ydigits), raw)

\* the first format that matches, in the order of fmts
FirstMatchMutant(s, raw, two, four) ==
    IF raw = <<>> THEN <<None, raw>>
    ELSE IF two # None THEN <<two, raw>>
    ELSE IF four # None THEN <<four, raw>>
    ELSE <<None, raw>>
FirstMatch(s, raw, two, four) ==
    IF raw = <<>> THEN <<None, s>>
    ELSE IF two # None THEN <<two, s>>
    ELSE IF four # None THEN <<four, s>>
    ELSE <<None, s>>

\* returns (iso_datetime, raw_string)
parse_fido_datetime(s) ==
    CallByValue(
        LAMBDA raw :
            CallByValue(LAMBDA two : FirstMatch(s, raw, two, strptime(raw, 4)),
                        strptime(raw, 2)),
        strip(s))

(***************************************************************************)
(* Body Analyzer: extract_echo and analyse_body.                           *)
(***************************************************************************)

\* a kludge line starts with ^A
IsKludge(l) == startswith(l, <<1>>)

\* the number of leading body lines extract_echo scans
EchoScanLines == 30

AreaTag == <<65, 82, 69, 65, 58>>    \* "AREA:"

upper(s) == [i \in 1..Len(s) |-> Upper(s[i])]

\* line[1:] for a line that starts with ^A
DropKludge(l) == IF IsKludge(l) THEN From(l, 1) ELSE l

\* the area of one (non-empty) line, <<>> when the line holds none
AreaOf(line) ==
    IF startswith(upper(line), AreaTag) THEN strip(From(line, 5)) ELSE <<>>

RECURSIVE EchoScan(_)
EchoScan(lines) ==
    CallByValue(
        LAMBDA ls :
            IF ls = <<>> THEN None
            ELSE IF Head(ls) # <<>> /\ AreaOf(DropKludge(Head(ls))) # <<>>
                 THEN AreaOf(DropKludge(Head(ls)))
                 ELSE EchoScan(Tail(ls)),
        lines)

extract_echoMutant(body_text) == EchoScan(splitlines(body_text))
extract_echo(body_text) == EchoScan(Take(splitlines(body_text), EchoScanLines))

\* re.match(r"\s*>", l)
IsQuotedMutant(l) == startswith(l, <<62>>)
IsQuoted(l) == LET p == SkipWs(l, 1) IN p <= Len(l) /\ l[p] = 62

\* pct_quoted is the float (quoted * 100.0) / total, kept as the exact
\* fraction <<numerator, denominator>>
BodyStats(usable) ==
    IF Len(usable) = 0 THEN <<0, None>>
    ELSE <<Len(usable),
           <<Len(SelectSeq(usable, IsQuoted)) * 100, Len(usable)>>>>

NotKludge(l) == ~IsKludge(l)

analyse_body(body_text) == BodyStats(SelectSeq(splitlines(body_text), NotKludge))

(***************************************************************************)
(* Packet Decoder: read_cstr and parse_pkt_file.                           *)
(***************************************************************************)

PKT_HDR_LEN == 58

\* data.find(b"\x00", start): the offset of the first NUL at or after
\* start, -1 when there is none
find_nul(d, start) ==
    IF \E i \in start..(Len(d) - 1) : d[i + 1] = 0
    THEN CHOOSE i \in start..(Len(d) - 1) :
             d[i + 1] = 0 /\ \A j \in start..(i - 1) : d[j + 1] # 0
    ELSE -1

\* returns (decoded_string, new_offset_past_nul); ok = FALSE is the ValueError
read_cstr(d, offset) ==
    LET end == find_nul(d, offset)
    IN  IF end = -1 THEN [ok |-> FALSE, s |-> <<>>, off |-> offset]
        ELSE [ok |-> TRUE, s |-> SubSeq(d, offset + 1, end), off |-> end + 1]

\* struct.unpack_from("<H", data, off); -1 is struct.error (buffer too short)
unpack_H(d, o) ==
    IF o + 2 > Len(d) THEN -1 ELSE d[o + 1] + 256 * d[o + 2]

\* the loop's end-of-data test
AtEndMutant(d, o) == o >= Len(d)
AtEnd(d, o) == o + 2 > Len(d)

\* msg_index += 1
NextIndexMutant(i) == i
NextIndex(i) == i + 1

\* The text fields read so far: ok = FALSE once a read_cstr raised, off the
\* cursor, strs the strings returned.
Fields(ok, o, strs) == [ok |-> ok, off |-> o, strs |-> strs]

\* s, off = read_cstr(data, off)
NextField(d, f) ==
    CallByValue(
        LAMBDA v :
            IF v.ok /\ read_cstr(d, v.off).ok
            THEN Fields(TRUE, read_cstr(d, v.off).off,
                        Append(v.strs, read_cstr(d, v.off).s))
            ELSE Fields(FALSE, v.off, v.strs),
        f)

\* the dict appended to results
Record(path, mi, dt, body_bytes, body_text, stats, from_name, subject) ==
    [pkt_file |-> path,
     msg_index |-> mi,
     date_iso |-> dt[1],
     date_raw |-> strip(dt[2]),
     echo |-> extract_echo(body_text),
     size_bytes |-> Len(body_bytes),
     msg_lines |-> stats[1],
     pct_quoted |-> stats[2],
     from_name |-> strip(from_name),
     subject |-> strip(subject)]

\* body_text = body_bytes.decode("latin-1"): byte b is character b
decode_latin1(bs) == bs

\* the message whose fields f were read and whose body ends at offset end
Message(path, d, mi, f, body_bytes) ==
    CallByValue(
        LAMBDA b :
            CallByValue(
                LAMBDA dt :
                    CallByValue(
                        LAMBDA stats :
                            Record(path, mi, dt, b, decode_latin1(b), stats,
                                   f.strs[3], f.strs[4]),
                        analyse_body(decode_latin1(b))),
                parse_fido_datetime(f.strs[1])),
        body_bytes)

\* the outcome of the reads behind the 20-byte block
AfterFields(path, d, mi, f, end) ==
    IF ~f.ok
    THEN [err |-> "Missing NUL terminator in PKT string", off |-> f.off,
          rec |-> None]
    ELSE IF end = -1
    THEN [err |-> "message body missing terminator", off |-> f.off, rec |-> None]
    ELSE [err |-> NoError, off |-> end + 1,
          rec |-> Message(path, d, mi, f, SubSeq(d, f.off + 1, end))]

\* the four text fields date, to, from, subject from offset o
ReadFields(d, o) ==
    NextField(d, NextField(d, NextField(d, NextField(d, Fields(TRUE, o, <<>>)))))

BodyEnd(d, f) == IF f.ok THEN find_nul(d, f.off) ELSE -1

FieldsAndBody(path, d, mi, f) ==
    CallByValue(LAMBDA v : AfterFields(path, d, mi, v, BodyEnd(d, v)), f)

\* One message after its marker (o is the offset behind the marker):
\* err = None and the dict appended to results, or the error raised and the
\* cursor where it was raised.
ReadMessage(path, d, o, mi) ==
    IF o + 20 > Len(d)
    THEN [err |-> "truncated message header", off |-> o, rec |-> None]
    ELSE FieldsAndBody(path, d, mi, ReadFields(d, o + 20))

\* The state of the loop: the cursor, the list, the counter, and where the
\* function stands: "loop", "eod" (break at end of data), "zero" (break at
\* the zero marker), "error" (an exception left the function)
LoopState(o, rs, mi, p, e) ==
    [off |-> o, results |-> rs, msg_index |-> mi, pc |-> p, err |-> e]

\* raise ValueError(...) inside the loop: the function is left at once
RaiseMutant(st, m) == [st EXCEPT !.off = m.off, !.pc = "eod"]
Raise(st, m) == [st EXCEPT !.off = m.off, !.pc = "error", !.err = m.err]

\* the loop state after the message read m
AfterMessageMutant(st, m) ==
    IF m.err # NoError THEN Raise(st, m)
    ELSE [st EXCEPT !.results = Append(st.results, m.rec),
                    !.msg_index = NextIndex(st.msg_index)]
AfterMessage(st, m) ==
    CallByValue(
        LAMBDA v :
            IF v.err # NoError THEN Raise(st, v)
            ELSE [st EXCEPT !.off = v.off,
                            !.results = Append(st.results, v.rec),
                            !.msg_index = NextIndex(st.msg_index)],
        m)

\* the loop state after the marker msg_type was read
AfterMarkerMutant(path, d, st, msg_type) ==
    IF msg_type = -1 THEN [st EXCEPT !.pc = "error", !.err = "struct.error"]
    ELSE AfterMessage(st, ReadMessage(path, d, st.off + 2, st.msg_index))
AfterMarker(path, d, st, msg_type) ==
    IF msg_type = -1 THEN [st EXCEPT !.pc = "error", !.err = "struct.error"]
    ELSE IF msg_type = 0 THEN [st EXCEPT !.off = st.off + 2, !.pc = "zero"]
    ELSE AfterMessage(st, ReadMessage(path, d, st.off + 2, st.msg_index))

\* one iteration of "while True"
LoopStep(path, d, st) ==
    IF AtEnd(d, st.off) THEN [st EXCEPT !.pc = "eod"]
    ELSE AfterMarker(path, d, st, unpack_H(d, st.off))

\* the function has not returned
NotReturned == [ok |-> FALSE, records |-> <<>>, err |-> "pending"]

\* what the caller of parse_pkt_file gets when the function is left in st
ReturnedMutant(st) ==
    [ok |-> st.pc # "error", records |-> st.results, err |-> st.err]
Returned(st) ==
    IF st.pc = "error" THEN [ok |-> FALSE, records |-> <<>>, err |-> st.err]
    ELSE [ok |-> TRUE, records |-> st.results, err |-> NoError]

TooSmall == [ok |-> FALSE, records |-> <<>>, err |-> "too small to be a PKT"]

\* if len(data) < PKT_HDR_LEN
IsTooSmallMutant(d) == Len(d) + 1 < PKT_HDR_LEN
IsTooSmall(d) == Len(d) < PKT_HDR_LEN

RECURSIVE RunLoop(_, _, _)
RunLoop(path, d, st) ==
    IF st.pc # "loop" THEN st ELSE RunLoop(path, d, LoopStep(path, d, st))

\* the whole call
parse_pkt_file(path, d) ==
    IF IsTooSmall(d) THEN TooSmall
    ELSE Returned(RunLoop(path, d, LoopState(PKT_HDR_LEN, <<>>, 0, "loop", NoError)))

(***************************************************************************)
(* Packet files.  A packet is the 58-byte header, message records (a       *)
(* 2-byte little-endian marker, 20 bytes of routing fields, the four       *)
(* NUL-terminated text fields and the NUL-terminated body) and a zero      *)
(* marker or the end of the data.  The buffers decoded below are headers   *)
(* followed by up to MaxMsgs whole messages and a tail: a terminator, stray*)
(* bytes, or a message cut short at any byte.                              *)
(***************************************************************************)

MaxMsgs == 2

Bytes(n, b) == [i \in 1..n |-> b]

Headers == {Bytes(PKT_HDR_LEN, 0), Bytes(PKT_HDR_LEN, 2)}

\* the bytes of one message record
EncodeMsg(m) ==
    <<m.type % 256, m.type \div 256>> \o m.block \o m.date \o <<0>>
      \o m.to \o <<0>> \o m.from \o <<0>> \o m.subj \o <<0>> \o m.body \o <<0>>

\* "01 Jan 24  12:00:00", to "A", from " B ", subject "S",
\* body "AREA:X\r> q\rhi"
MsgA ==
    [type |-> 2, block |-> Bytes(20, 0),
     date |-> <<48, 49, 32, 74, 97, 110, 32, 50, 52, 32, 32, 49, 50, 58, 48, 48, 58, 48, 48>>,
     to |-> <<65>>, from |-> <<32, 66, 32>>, subj |-> <<83>>,
     body |-> <<65, 82, 69, 65, 58, 88, 13, 62, 32, 113, 13, 104, 105>>]

\* marker 0x0100, all text fields and the body empty
MsgB ==
    [type |-> 256, block |-> Bytes(20, 1),
     date |-> <<>>, to |-> <<>>, from |-> <<>>, subj |-> <<>>, body |-> <<>>]

\* date " 9 ", from "B", subject " S", body "\x01k\r"
MsgC ==
    [type |-> 2, block |-> Bytes(20, 0),
     date |-> <<32, 57, 32>>, to |-> <<>>, from |-> <<66>>, subj |-> <<32, 83>>,
     body |-> <<1, 107, 13>>]

\* date " 1 Feb 2024 03:04:05 ", to "T", from "F", subject "", body ">a"
MsgD ==
    [type |-> 2, block |-> Bytes(20, 3),
     date |-> <<32, 49, 32, 70, 101, 98, 32, 50, 48, 50, 52, 32, 48, 51, 58, 48, 52,
                58, 48, 53, 32>>,
     to |-> <<84>>, from |-> <<70>>, subj |-> <<>>, body |-> <<62, 97>>]

MsgPool == {MsgA, MsgB, MsgC, MsgD}

RECURSIVE Flatten(_)
Flatten(ss) == IF ss = <<>> THEN <<>> ELSE Head(ss) \o Flatten(Tail(ss))

MsgSeqs == UNION {[1..n -> MsgPool] : n \in 0..MaxMsgs}

Prefixes(b) == {SubSeq(b, 1, n) : n \in 0..(Len(b) - 1)}

\* the messages that are cut short at every byte
CutMsgs == {MsgA, MsgB, MsgC}

\* what may follow the last whole message
Tails ==
    {<<>>, <<0>>, <<0, 0>>, <<0, 0, 7>>, <<0, 0, 2, 0>>, <<5>>}
      \cup UNION {Prefixes(EncodeMsg(m)) : m \in CutMsgs}

Packet(h, ms, t) == h \o Flatten([i \in 1..Len(ms) |-> EncodeMsg(ms[i])]) \o t

\* headers of other content: all bytes 255, the bytes 1, 2, ..., 58, and
\* letters with a NUL at any one place
VariedHeaders ==
    {Bytes(PKT_HDR_LEN, 255), [i \in 1..PKT_HDR_LEN |-> i]}
      \cup {[i \in 1..PKT_HDR_LEN |-> IF i = k THEN 0 ELSE 65] : k \in 1..PKT_HDR_LEN}

\* a header of any content, no message or one, and the zero marker
HeaderBuffers ==
    {Packet(h, ms, <<0, 0>>) : h \in VariedHeaders, ms \in {<<>>, <<MsgA>>}}

Buffers ==
    {Packet(h, ms, t) : h \in Headers, ms \in MsgSeqs, t \in Tails}
      \cup UNION {Prefixes(h) : h \in Headers}
      \cup HeaderBuffers

Paths == {"a.pkt", "b.pkt"}

(***************************************************************************)
(* Record Store: SCHEMA_SQL, init_db, insert_messages.  The store file is  *)
(* its schema (which tables, columns and indexes exist, the meta row       *)
(* schema_version), the committed rows of pkt_messages and the counter of  *)
(* the AUTOINCREMENT key.                                                  *)
(***************************************************************************)

\* the store file before it was ever opened
NoStore ==
    [exists |-> FALSE, cols |-> {}, unique |-> FALSE, has_meta |-> FALSE,
     version |-> NoVersion]

\* the columns of CREATE TABLE pkt_messages
AllCols ==
    {"id", "pkt_file", "msg_index", "date_iso", "date_raw", "echo", "size_bytes",
     "msg_lines", "pct_quoted", "from_name", "subject", "imported_at"}

\* conn.executescript(SCHEMA_SQL): every statement is IF NOT EXISTS / OR IGNORE
SchemaScript(sch) ==
    [exists |-> TRUE,
     cols |-> IF sch.exists THEN sch.cols ELSE AllCols,
     unique |-> TRUE,
     has_meta |-> TRUE,
     version |-> IF sch.has_meta /\ sch.version # NoVersion THEN sch.version ELSE "2"]

\* ALTER TABLE ... ADD COLUMN for the two columns older stores lack
AddColumns(sch) == [sch EXCEPT !.cols = sch.cols \cup {"msg_lines", "pct_quoted"}]

\* INSERT OR IGNORE the marker, then UPDATE meta SET value = '2'
BumpVersionMutant(sch) == sch
BumpVersion(sch) == [sch EXCEPT !.version = "2"]

init_db(sch) == BumpVersion(AddColumns(SchemaScript(sch)))

\* A row is a function from the columns of its table to values.  A column
\* added by ALTER TABLE holds NULL in the rows that were there before.
ExtendRow(r, cols) == [c \in cols |-> IF c \in DOMAIN r THEN r[c] ELSE None]

\* the rows of pkt_messages after init_db ran on the store of schema sch
MigrateRows(rs, sch) == {ExtendRow(r, init_db(sch).cols) : r \in rs}

\* the unique index idx_pkt_unique on (pkt_file, msg_index): the stored rows
\* a new record m conflicts with
ConflictMutant(rs, m) == FALSE
ConflictOnFileMutant(rs, m) == \E r \in rs : r.pkt_file = m.pkt_file
Conflict(rs, m) ==
    \E r \in rs : r.pkt_file = m.pkt_file /\ r.msg_index = m.msg_index

\* the row stored for message m: id and imported_at are assigned by the store
Row(m, id, t) ==
    [id |-> id, pkt_file |-> m.pkt_file, msg_index |-> m.msg_index,
     date_iso |-> m.date_iso, date_raw |-> m.date_raw, echo |-> m.echo,
     size_bytes |-> m.size_bytes, msg_lines |-> m.msg_lines,
     pct_quoted |-> m.pct_quoted, from_name |-> m.from_name,
     subject |-> m.subject, imported_at |-> t]

\* INSERT OR IGNORE INTO pkt_messages ...: the rows afterwards and cur.rowcount
InsertOrUpdateMutant(rs, m, id, t) ==
    IF Conflict(rs, m)
    THEN [rows |-> {IF r.pkt_file = m.pkt_file /\ r.msg_index = m.msg_index
                    THEN Row(m, r.id, r.imported_at) ELSE r : r \in rs},
          rowcount |-> 1]
    ELSE [rows |-> rs \cup {Row(m, id, t)}, rowcount |-> 1]
InsertOrReplaceMutant(rs, m, id, t) ==
    [rows |-> {r \in rs : ~(r.pkt_file = m.pkt_file /\ r.msg_index = m.msg_index)}
                \cup {Row(m, id, t)},
     rowcount |-> 1]
InsertOrIgnore(rs, m, id, t) ==
    IF Conflict(rs, m) THEN [rows |-> rs, rowcount |-> 0]
    ELSE [rows |-> rs \cup {Row(m, id, t)}, rowcount |-> 1]

\* inserted += cur.rowcount
AddCountMutant(inserted, rowcount) == inserted + 1
AddCount(inserted, rowcount) == inserted + rowcount

\* the state of insert_messages between two records
InsertState(rs, sq, inserted) == [rows |-> rs, seq |-> sq, inserted |-> inserted]

\* one pass of "for m in messages"; an ignored record consumes a key too
InsertOne(st, done) ==
    InsertState(done.rows, st.seq + 1, AddCount(st.inserted, done.rowcount))

RECURSIVE InsertLoop(_, _, _)
InsertLoop(st, messages, t) ==
    IF messages = <<>> THEN st
    ELSE InsertLoop(
             InsertOne(st, InsertOrIgnore(st.rows, Head(messages), st.seq + 1, t)),
             Tail(messages), t)

\* insert_messages(conn, messages) when no statement raises: the committed
\* rows, the key counter and the return value
insert_messages(rs, sq, messages, t) == InsertLoop(InsertState(rs, sq, 0), messages, t)

(***************************************************************************)
(* main(): the import run.  The folder holds the files of Paths; between   *)
(* runs files are written by whoever delivers packets.                     *)
(***************************************************************************)

\* runs started plus files delivered in one behaviour
MaxEvents == 5

Header0 == Bytes(PKT_HDR_LEN, 0)

PktEmpty == Packet(Header0, <<>>, <<0, 0>>)
PktOne == Packet(Header0, <<MsgA>>, <<0, 0>>)
PktOther == Packet(Header0, <<MsgC>>, <<>>)
PktTwo == Packet(Header0, <<MsgA, MsgB>>, <<0, 0>>)
\* cut inside the fixed block of the first, resp. the second message
PktCut0 == Packet(Header0, <<>>, SubSeq(EncodeMsg(MsgA), 1, 12))
PktCut1 == Packet(Header0, <<MsgA>>, SubSeq(EncodeMsg(MsgB), 1, 12))
PktShort == SubSeq(Header0, 1, PKT_HDR_LEN - 1)

TruncatedFiles == {PktCut0, PktCut1}

FileContents == {PktEmpty, PktOne, PktOther, PktTwo, PktCut0, PktCut1, PktShort}

\* sorted(folder.glob("*.pkt"))
PathOrder == <<"a.pkt", "b.pkt">>

Present(p) == fs[p] # Absent

sorted_glob == SelectSeq(PathOrder, Present)

\* one printed line: [ERROR], [OK] (with or without ", deleted"), [WARN],
\* the "=== name: n messages ===" block of test mode, or the traceback of
\* an exception nobody catches, with the counts main() holds for the file
\* when it prints the line; a count it does not hold is -1
LogLine(tag, file, msgs, inserted, err) ==
    [tag |-> tag, file |-> file, msgs |-> msgs, inserted |-> inserted, err |-> err]

\* the locals of main() when no run is under way
NoArgs == [test |-> FALSE, delete |-> FALSE]

NoTotals == [msgs |-> 0, inserted |-> 0, files |-> 0]

AddTotals(t, msgs, inserted) ==
    [msgs |-> t.msgs + msgs, inserted |-> t.inserted + inserted, files |-> t.files + 1]

\* if args.delete and inserted == len(messages)
DeleteGateMutant(a, inserted, n) == a.delete
DeleteGate(a, inserted, n) == a.delete /\ inserted = n

\* conn = None in test mode, else conn = init_db(db_path): the schema of the
\* store afterwards
OpenStoreMutant(t, sch) == init_db(sch)
OpenStore(t, sch) == IF t THEN sch ELSE init_db(sch)

\* What follows insert_messages for a file: outcome "kept" is the else
\* branch of the gate, "deleted" an unlink that succeeded, "warn" an unlink
\* that raised.  The line printed (its tag and the exception it shows) and
\* where main() stands afterwards.
UnlinkOutcomeMutant(outcome) ==
    CASE outcome = "kept" -> [tag |-> "OK", err |-> NoError, pc |-> "loop"]
      [] outcome = "deleted" -> [tag |-> "OK_DELETED", err |-> NoError, pc |-> "loop"]
      [] outcome = "warn" -> [tag |-> "TRACEBACK", err |-> "OSError", pc |-> "crashed"]
UnlinkOutcome(outcome) ==
    CASE outcome = "kept" -> [tag |-> "OK", err |-> NoError, pc |-> "loop"]
      [] outcome = "deleted" -> [tag |-> "OK_DELETED", err |-> NoError, pc |-> "loop"]
      [] outcome = "warn" -> [tag |-> "WARN", err |-> "OSError", pc |-> "loop"]

\* no decode under way
DecodeIdle ==
    /\ pkt_path = "a.pkt" /\ data = <<>> /\ off = 0 /\ results = <<>>
    /\ msg_index = 0 /\ dpc = "idle" /\ ret = NotReturned

\* the folder is empty, the store file does not exist, no run was started
MainIdle ==
    /\ fs = [p \in Paths |-> Absent]
    /\ rows = {} /\ seq = 0
    /\ schema = NoStore
    /\ now = 0 /\ pc = "idle" /\ args = NoArgs
    /\ pkt_files = <<>> /\ idx = 0
    /\ totals = [msgs |-> 0, inserted |-> 0, files |-> 0]
    /\ log = <<>> /\ events = 0 /\ imported = {}

\* no body under analysis
BodyIdle == body = <<>> /\ body_stats = None /\ body_echo = None /\ bpc = {}

\* no program has opened the store
ToolsIdle ==
    /\ tool = "none" /\ before = [schema |-> NoStore, rows |-> {}]
    /\ ipc = "idle" /\ rpc = "idle" /\ lock = "none" /\ txn = NoStore /\ marks = <<>>

Init == DecodeIdle /\ MainIdle /\ BodyIdle /\ ToolsIdle

\* a packet file is delivered or rewritten while no run is under way (the
\* process of the last run has exited)
PutFile(p, c) ==
    /\ pc \in {"idle", "done", "crashed"} /\ events < MaxEvents
    /\ fs[p] # c
    /\ fs' = [fs EXCEPT ![p] = c]
    /\ imported' = imported \ {p}
    /\ events' = events + 1
    /\ pc' = "idle" /\ args' = NoArgs /\ pkt_files' = <<>> /\ idx' = 0
    /\ totals' = NoTotals /\ log' = <<>>
    /\ UNCHANGED <<rows, seq, schema, now>>
    /\ UNCHANGED dvars
    /\ UNCHANGED <<bvars, tvars, cvars>>

\* main() up to the loop, when the folder holds no packet: print and return
StartEmpty(t, d) ==
    /\ pc \in {"idle", "done", "crashed"} /\ events < MaxEvents
    /\ sorted_glob = <<>>
    /\ events' = events + 1 /\ now' = now + 1
    /\ args' = [test |-> t, delete |-> d]
    /\ pkt_files' = <<>> /\ idx' = 1 /\ totals' = NoTotals /\ log' = <<>>
    /\ pc' = "done"
    /\ UNCHANGED <<fs, rows, seq, schema, imported>>
    /\ UNCHANGED dvars
    /\ UNCHANGED <<bvars, tvars, cvars>>

\* main() up to the loop: the file list, and init_db unless in test mode
Start(t, d) ==
    /\ pc \in {"idle", "done", "crashed"} /\ events < MaxEvents
    /\ sorted_glob # <<>>
    /\ events' = events + 1 /\ now' = now + 1
    /\ args' = [test |-> t, delete |-> d]
    /\ pkt_files' = sorted_glob /\ idx' = 1 /\ totals' = NoTotals /\ log' = <<>>
    /\ schema' = OpenStore(t, schema)
    /\ rows' = IF t THEN rows ELSE MigrateRows(rows, schema)
    /\ pc' = "loop"
    /\ UNCHANGED <<fs, seq, imported>>
    /\ UNCHANGED dvars
    /\ UNCHANGED <<bvars, tvars, cvars>>

\* messages = parse_pkt_file(pkt) for the files a folder may hold
ParsedFile == [p \in Paths, c \in FileContents |-> parse_pkt_file(p, c)]

InLoop == pc = "loop" /\ idx <= Len(pkt_files)

Cur == pkt_files[idx]

\* parse_pkt_file raises: print [ERROR] and continue
FileError ==
    /\ InLoop
    /\ \E r \in {ParsedFile[Cur, fs[Cur]]} :
           /\ ~r.ok
           /\ log' = Append(log, LogLine("ERROR", Cur, -1, -1, r.err))
    /\ idx' = idx + 1
    /\ UNCHANGED <<fs, rows, seq, schema, now, pc, args, pkt_files, totals, events,
                   imported>>
    /\ UNCHANGED dvars
    /\ UNCHANGED <<bvars, tvars, cvars>>

\* test mode: list the messages and continue
FileTest ==
    /\ InLoop /\ args.test
    /\ \E r \in {ParsedFile[Cur, fs[Cur]]} :
           /\ r.ok
           /\ log' = Append(log, LogLine("TEST", Cur, Len(r.records), -1, NoError))
           /\ totals' = AddTotals(totals, Len(r.records), 0)
    /\ idx' = idx + 1
    /\ UNCHANGED <<fs, rows, seq, schema, now, pc, args, pkt_files, events, imported>>
    /\ UNCHANGED dvars
    /\ UNCHANGED <<bvars, tvars, cvars>>

\* insert_messages raises (the store fails in a statement or in the commit):
\* nothing of the open transaction is committed, nobody catches the
\* exception, the run ends.  Without a record no statement is executed and
\* the commit has no transaction to end, so there is nothing that can fail.
FileStoreError ==
    /\ InLoop /\ ~args.test
    /\ \E r \in {ParsedFile[Cur, fs[Cur]]} :
           /\ r.ok /\ r.records # <<>>
           /\ log' = Append(log, LogLine("TRACEBACK", Cur, Len(r.records), -1,
                                         "sqlite3.Error"))
    /\ pc' = "crashed"
    /\ UNCHANGED <<fs, rows, seq, schema, now, args, pkt_files, idx, totals, events,
                   imported>>
    /\ UNCHANGED dvars
    /\ UNCHANGED <<bvars, tvars, cvars>>

\* the file is inserted; what happens to it afterwards is in outcome:
\* "kept" (no deletion asked for or the gate is closed), "deleted" (unlink
\* succeeded), "warn" (unlink raised)
FileInsert(outcome) ==
    /\ InLoop /\ ~args.test
    /\ \E r \in {ParsedFile[Cur, fs[Cur]]} :
         /\ r.ok
         /\ \E res \in {insert_messages(rows, seq, r.records, now)} :
              /\ rows' = res.rows /\ seq' = res.seq
              /\ totals' = AddTotals(totals, Len(r.records), res.inserted)
              /\ (outcome = "kept") = ~DeleteGate(args, res.inserted, Len(r.records))
              /\ fs' = IF outcome = "deleted" THEN [fs EXCEPT ![Cur] = Absent] ELSE fs
              /\ imported' = IF outcome = "deleted" THEN imported \ {Cur}
                             ELSE imported \cup {Cur}
              /\ log' = Append(log,
                     LogLine(UnlinkOutcome(outcome).tag, Cur, Len(r.records),
                             res.inserted, UnlinkOutcome(outcome).err))
    /\ pc' = UnlinkOutcome(outcome).pc
    /\ idx' = idx + 1
    /\ UNCHANGED <<schema, now, args, pkt_files, events>>
    /\ UNCHANGED dvars
    /\ UNCHANGED <<bvars, tvars, cvars>>

FileKept == FileInsert("kept")
FileDeleted == FileInsert("deleted")
FileWarn == FileInsert("warn")

\* the loop is over: conn.close() and the summary line
Finish ==
    /\ pc = "loop" /\ idx > Len(pkt_files)
    /\ pc' = "done"
    /\ UNCHANGED <<fs, rows, seq, schema, now, args, pkt_files, idx, totals, log, events,
                   imported>>
    /\ UNCHANGED dvars
    /\ UNCHANGED <<bvars, tvars, cvars>>

Next ==
    \/ \E p \in Paths, c \in FileContents : PutFile(p, c)
    \/ \E t \in BOOLEAN, d \in BOOLEAN : StartEmpty(t, d)
    \/ \E t \in BOOLEAN, d \in BOOLEAN : Start(t, d)
    \/ FileError
    \/ FileTest
    \/ FileStoreError
    \/ FileKept
    \/ FileDeleted
    \/ FileWarn
    \/ Finish

Spec == Init /\ [][Next]_vars

(***************************************************************************)
(* Properties of the import run, specification Spec.                       *)
(***************************************************************************)

\* a run is under way or has ended and nothing was delivered since
InRun == pc \in {"loop", "done", "crashed"}

\* the rows of file p inserted by the current run
InsertedNow(p) == {r \in rows : r.pkt_file = p /\ r.imported_at = now}

\* the rows of file p that an earlier run inserted
InsertedBefore(p) == {r \in rows : r.pkt_file = p /\ r.imported_at < now}

\* the line shows that pkt.unlink() was called
Attempted(e) == e.tag \in {"OK_DELETED", "WARN"}

\* the line shows that the file was decoded and insert_messages returned
Inserted(e) == e.tag \in {"OK", "OK_DELETED", "WARN"}

\* the stored row r holds what message m holds
SameFields(r, m) == r = Row(m, r.id, r.imported_at)

\* C1: importing a file again whose content an earlier insert has seen and
\* that was not rewritten since leaves the rows of pkt_messages as they are,
\* and insert_messages returns 0 for it.
C1_ReimportInsertsNothing ==
    [][(InLoop /\ ~args.test /\ Cur \in imported) =>
          /\ rows' = rows
          /\ pc' # "crashed" => (/\ Len(log') = Len(log) + 1
                                 /\ Inserted(log'[Len(log')])
                                 /\ log'[Len(log')].inserted = 0)]_vars

\* a file of two messages was imported again: the store holds exactly its
\* messages from an earlier run, and the run inserted 0 of 2
C1_Witness ==
    /\ pc = "done" /\ ~args.test
    /\ \E i \in 1..Len(log) :
         /\ log[i].tag = "OK" /\ log[i].msgs = 2 /\ log[i].inserted = 0
         /\ fs[log[i].file] = PktTwo
         /\ Cardinality(InsertedBefore(log[i].file)) = 2
         /\ \A m \in {ParsedFile[log[i].file, PktTwo].records[k] : k \in 1..2} :
                \E r \in InsertedBefore(log[i].file) : SameFields(r, m)

\* C2: no two rows of pkt_messages have the same (pkt_file, msg_index).
C2_KeyUnique ==
    \A r1 \in rows, r2 \in rows :
        (r1.pkt_file = r2.pkt_file /\ r1.msg_index = r2.msg_index) => r1 = r2

\* a file that grew under its path was imported again: one of its rows is
\* from an earlier run, one from this run, and a record was ignored
C2_Witness ==
    /\ pc = "done"
    /\ \E i \in 1..Len(log) :
         /\ Inserted(log[i]) /\ log[i].msgs = 2 /\ log[i].inserted = 1
         /\ InsertedBefore(log[i].file) # {} /\ InsertedNow(log[i].file) # {}

\* C3: a stored row is never changed or removed by a later step, whatever
\* records are submitted under its key.
C3_RowsNeverUpdated == [][\A r \in rows : r \in rows']_vars

\* a record with the key of a stored row and other field values was
\* submitted; the run ended without an error and the row is as it was
C3_Witness ==
    /\ pc = "done" /\ ~args.test
    /\ \E i \in 1..Len(log) :
         /\ log[i].tag = "OK" /\ log[i].msgs = 1 /\ log[i].inserted = 0
         /\ fs[log[i].file] = PktOther
         /\ \E r \in InsertedBefore(log[i].file) :
                /\ r.msg_index = 0
                /\ SameFields(r, ParsedFile[log[i].file, PktOne].records[1])
                /\ ~SameFields(r, ParsedFile[log[i].file, PktOther].records[1])

\* for every file of the run: unlink was called exactly when the file was
\* decoded and the run inserted as many rows for it as were decoded, and a
\* file for which unlink was not called is still there
GateDecides ==
    \A i \in 1..Len(log) :
        /\ Attempted(log[i]) <=>
               (/\ log[i].tag # "ERROR"
                /\ Cardinality(InsertedNow(log[i].file)) = log[i].msgs)
        /\ ~Attempted(log[i]) => Present(log[i].file)

\* C4 as claimed: whenever deletion is requested, the removal of a file is
\* attempted iff the rows inserted for it in this run are as many as the
\* records decoded from it.
C4_DeleteIffCountsEqual == (InRun /\ args.delete) => GateDecides

\* C4 as amended: the same when deletion is requested and the run is not in
\* test mode.
C4_DeleteIffCountsEqualOutsideTestMode ==
    (InRun /\ args.delete /\ ~args.test) => GateDecides

\* with deletion requested, one file was removed and another (whose rows
\* were in the store already) was kept
C4_Witness ==
    /\ pc = "done" /\ args.delete /\ ~args.test
    /\ \E i \in 1..Len(log), j \in 1..Len(log) :
         /\ log[i].tag = "OK_DELETED" /\ ~Present(log[i].file)
         /\ log[j].tag = "OK" /\ log[j].msgs >= 1 /\ Present(log[j].file)

\* C5 as claimed: every file that was decoded and inserted without an error
\* satisfies the gate: as many rows were inserted as records were decoded.
C5_NoErrorMeansGateOpen ==
    InRun =>
        \A i \in 1..Len(log) :
            Inserted(log[i]) =>
                (/\ log[i].inserted = log[i].msgs
                 /\ Cardinality(InsertedNow(log[i].file)) = log[i].msgs)

\* C5 as amended: for a file decoded and inserted without an error, the
\* inserted count is the decoded count less the decoded keys an earlier run
\* had persisted; the gate is open iff there was no such key.
C5_GateOpenIffNoKeyPersistedBefore ==
    InRun =>
        \A i \in 1..Len(log) :
            Inserted(log[i]) =>
                LET old == {r \in InsertedBefore(log[i].file) :
                                r.msg_index < log[i].msgs}
                IN  /\ log[i].inserted = Cardinality(InsertedNow(log[i].file))
                    /\ log[i].inserted = log[i].msgs - Cardinality(old)
                    /\ DeleteGate([delete |-> TRUE], log[i].inserted, log[i].msgs)
                         <=> old = {}

\* deletion was requested for a file whose records an earlier run had
\* persisted: nothing failed, the gate stayed closed, the file is still there
C5_Witness ==
    /\ pc = "done" /\ args.delete /\ ~args.test
    /\ \E i \in 1..Len(log) :
         /\ log[i].tag = "OK" /\ log[i].msgs = 2 /\ log[i].inserted = 0
         /\ Present(log[i].file)

\* C6: the step of the loop on a file that is cut inside a message (after 0
\* or 1 whole messages) inserts nothing, prints exactly one [ERROR] line for
\* the file, leaves the file where it is and goes on to the next file.
C6_TruncatedFileInsertsNothing ==
    [][(InLoop /\ fs[Cur] \in TruncatedFiles) =>
          /\ rows' = rows /\ seq' = seq /\ fs' = fs
          /\ Len(log') = Len(log) + 1
          /\ log'[Len(log')].tag = "ERROR" /\ log'[Len(log')].file = Cur
          /\ SubSeq(log', 1, Len(log)) = log
          /\ pc' = "loop" /\ idx' = idx + 1]_vars

\* deletion was requested and a file cut after one whole message was
\* processed
C6_Witness ==
    /\ pc = "done" /\ args.delete /\ ~args.test
    /\ \E i \in 1..Len(log) :
         /\ log[i].tag = "ERROR" /\ log[i].err = "truncated message header"
         /\ fs[log[i].file] = PktCut1
         /\ InsertedNow(log[i].file) = {}

\* C7: when a run has ended, every file of its sorted file list was taken up
\* by the loop (decoded, and inserted unless it failed), whatever failed for
\* the files before it.
C7_LaterFilesStillProcessed ==
    pc \in {"done", "crashed"} =>
        \A i \in 1..Len(pkt_files) :
            \E j \in 1..Len(log) : log[j].file = pkt_files[i]

(***************************************************************************)
(* The decoder, one loop iteration per step, on any of the buffers.        *)
(***************************************************************************)

DInit ==
    /\ pkt_path \in Paths
    /\ data \in Buffers
    /\ off = 0 /\ results = <<>> /\ msg_index = 0
    /\ dpc = "start" /\ ret = NotReturned
    /\ MainIdle /\ BodyIdle /\ ToolsIdle

DState == LoopState(off, results, msg_index, dpc, NoError)

\* data = pkt_path.read_bytes() is shorter than the header: ValueError
DTooSmall ==
    /\ dpc = "start" /\ IsTooSmall(data)
    /\ dpc' = "error" /\ ret' = TooSmall
    /\ UNCHANGED <<pkt_path, data, off, results, msg_index>>
    /\ UNCHANGED mvars
    /\ UNCHANGED <<bvars, tvars, cvars>>

\* off = PKT_HDR_LEN; results = []; msg_index = 0
DEnter ==
    /\ dpc = "start" /\ ~IsTooSmall(data)
    /\ off' = PKT_HDR_LEN /\ results' = <<>> /\ msg_index' = 0 /\ dpc' = "loop"
    /\ UNCHANGED <<pkt_path, data, ret>>
    /\ UNCHANGED mvars
    /\ UNCHANGED <<bvars, tvars, cvars>>

\* one iteration of the loop that leaves the function in state kind
DIterate(kind) ==
    /\ dpc = "loop"
    /\ \E st \in {LoopStep(pkt_path, data, DState)} :
           /\ st.pc = kind
           /\ off' = st.off /\ results' = st.results /\ msg_index' = st.msg_index
           /\ dpc' = st.pc
           /\ ret' = IF st.pc = "loop" THEN ret ELSE Returned(st)
    /\ UNCHANGED <<pkt_path, data>>
    /\ UNCHANGED mvars
    /\ UNCHANGED <<bvars, tvars, cvars>>

DMessage == DIterate("loop")
DEndOfData == DIterate("eod")
DZeroMarker == DIterate("zero")
DRaise == DIterate("error")

DNext == DTooSmall \/ DEnter \/ DMessage \/ DEndOfData \/ DZeroMarker \/ DRaise

SpecDecode == DInit /\ [][DNext]_vars

(***************************************************************************)
(* Properties of the decoder, specification SpecDecode.                    *)
(***************************************************************************)

\* number of NUL bytes of d at offsets o, o + 1, ...
NulsFrom(d, o) == Cardinality({i \in (o + 1)..Len(d) : d[i] = 0})

\* the message whose marker is at offset o does not fit into d: its 20-byte
\* block, or one of the five terminators behind it, lies past the end
TruncatedAt(d, o) == o + 22 > Len(d) \/ NulsFrom(d, o + 22) < 5

\* C8: in a buffer of at least 58 bytes, when a non-zero marker is read and
\* the fixed block or one of the five NUL terminators of the message lies
\* past the end of the buffer, parse_pkt_file raises and its caller gets no
\* records, whatever was decoded before.
C8_TruncatedRaisesWithoutRecords ==
    /\ (/\ dpc = "loop" /\ off + 2 <= Len(data)
        /\ data[off + 1] + 256 * data[off + 2] # 0
        /\ TruncatedAt(data, off))
         => (/\ ~parse_pkt_file(pkt_path, data).ok
             /\ parse_pkt_file(pkt_path, data).records = <<>>)
    /\ dpc = "error" => (~ret.ok /\ ret.records = <<>>)

C8_Witness ==
    /\ dpc = "error" /\ Len(data) >= PKT_HDR_LEN
    /\ Len(results) >= 1 /\ ret.records = <<>>
    /\ ret.err = "message body missing terminator"

\* C9: when the loop stops at a zero marker that is the last two bytes of
\* the buffer, the buffer without that marker, and the buffer with only the
\* first byte of it, decode without error to the same records.
C9_EndOfDataLikeZeroMarker ==
    (dpc = "zero" /\ off = Len(data)) =>
        /\ ret.ok
        /\ parse_pkt_file(pkt_path, SubSeq(data, 1, Len(data) - 2)) = ret
        /\ parse_pkt_file(pkt_path, SubSeq(data, 1, Len(data) - 1)) = ret

C9_Witness == dpc = "zero" /\ off = Len(data) /\ Len(ret.records) >= 2

\* C10: the records of one decode carry msg_index 0, 1, ..., n-1 in the
\* order they were appended, while the list is built and when it is returned.
C10_MsgIndexIsPosition ==
    /\ msg_index = Len(results)
    /\ \A k \in 1..Len(results) : results[k].msg_index = k - 1
    /\ dpc \in {"eod", "zero"} =>
           /\ ret.ok /\ ret.records = results
           /\ \A k \in 1..Len(ret.records) : ret.records[k].msg_index = k - 1

C10_Witness == dpc = "eod" /\ ret.ok /\ Len(ret.records) >= 2

(***************************************************************************)
(* The body heuristics applied to one body text: every short text over the *)
(* characters that decide them, and texts of many lines with area lines    *)
(* at and around the end of the window extract_echo scans.                 *)
(***************************************************************************)

MaxBodyLen == 4

\* filler lines put before the area lines of a body
MaxFillLines == 31

\* ^A, LF, CR, blank, ">", "x"
BodyChars == {1, 10, 13, 32, 62, 120}

ShortBodies == UNION {[1..n -> BodyChars] : n \in 0..MaxBodyLen}

\* "AREA:A", "^AAREA:B", "area: c ", "AREA:" and "AREA: " (no area behind
\* the tag), "^A^AAREA:D", " AREA:E"
AreaLines ==
    {<<65, 82, 69, 65, 58, 65>>,
     <<1, 65, 82, 69, 65, 58, 66>>,
     <<97, 114, 101, 97, 58, 32, 99, 32>>,
     <<65, 82, 69, 65, 58>>,
     <<65, 82, 69, 65, 58, 32>>,
     <<1, 1, 65, 82, 69, 65, 58, 68>>,
     <<32, 65, 82, 69, 65, 58, 69>>}

\* the lines of ls, each ended by CR
RECURSIVE JoinLines(_)
JoinLines(ls) == IF ls = <<>> THEN <<>> ELSE Head(ls) \o <<13>> \o JoinLines(Tail(ls))

\* n filler lines (all empty or all "x"), then one or two area lines
LongBodies ==
    {JoinLines([i \in 1..n |-> f] \o t) :
        n \in 0..MaxFillLines, f \in {<<>>, <<120>>},
        t \in {<<l>> : l \in AreaLines} \cup (AreaLines \X AreaLines)}

\* "^A", CR, " >", CR, "x" and "x", CR LF, ">>", LF
MixedBodies == {<<1, 13, 32, 62, 13, 120>>, <<120, 13, 10, 62, 62, 10>>}

Bodies == ShortBodies \cup LongBodies \cup MixedBodies

BInit ==
    /\ body \in Bodies
    /\ body_stats = None /\ body_echo = None /\ bpc = {}
    /\ DecodeIdle /\ MainIdle /\ ToolsIdle

\* msg_lines, pct_quoted = analyse_body(body_text)
Analyse ==
    /\ "stats" \notin bpc
    /\ body_stats' = analyse_body(body)
    /\ bpc' = bpc \cup {"stats"}
    /\ UNCHANGED <<body, body_echo>>
    /\ UNCHANGED <<dvars, mvars, tvars, cvars>>

\* echo = extract_echo(body_text)
Extract ==
    /\ "echo" \notin bpc
    /\ body_echo' = extract_echo(body)
    /\ bpc' = bpc \cup {"echo"}
    /\ UNCHANGED <<body, body_stats>>
    /\ UNCHANGED <<dvars, mvars, tvars, cvars>>

BNext == Analyse \/ Extract

SpecBody == BInit /\ [][BNext]_vars

(***************************************************************************)
(* Properties of the body heuristics, specification SpecBody.              *)
(***************************************************************************)

\* the positions of the lines of ls whose first character is not ^A
UsableAt(ls) == {i \in 1..Len(ls) : ls[i] = <<>> \/ ls[i][1] # 1}

\* the positions of the usable lines of ls whose first character that is no
\* whitespace is ">"
QuotedAt(ls) ==
    {i \in UsableAt(ls) :
        \E p \in 1..Len(ls[i]) :
            ls[i][p] = 62 /\ \A q \in 1..(p - 1) : ls[i][q] \in Whitespace}

\* C11: analyse_body returns as msg_lines the number of body lines whose
\* first character is not ^A; pct_quoted is None exactly when msg_lines is
\* 0, and otherwise 100 * quoted / msg_lines, a value from 0 to 100, where a
\* line is quoted when its first character that is no whitespace is ">".
C11_LinesAndQuotedShare ==
    "stats" \in bpc =>
        \A ls \in {splitlines(body)} :
            /\ body_stats[1] = Cardinality(UsableAt(ls))
            /\ body_stats[2] = None <=> body_stats[1] = 0
            /\ body_stats[2] # None =>
                   /\ body_stats[2] = <<100 * Cardinality(QuotedAt(ls)), body_stats[1]>>
                   /\ 0 <= body_stats[2][1]
                   /\ body_stats[2][1] <= 100 * body_stats[2][2]

\* the body "^A", CR, " >", CR, "x": a kludge line, a quoted line behind a
\* blank and a plain line; two lines are counted and half of them are quoted
C11_Witness ==
    /\ "stats" \in bpc
    /\ body = <<1, 13, 32, 62, 13, 120>>
    /\ body_stats = <<2, <<100, 2>>>>

\* the line without one leading ^A
Unprefixed(l) == IF l # <<>> /\ l[1] = 1 THEN SubSeq(l, 2, Len(l)) ELSE l

\* the line, less one leading ^A, starts with "AREA:" in any letter case
HasTag(l) ==
    /\ Len(Unprefixed(l)) >= 5
    /\ \A k \in 1..5 : Lower(Unprefixed(l)[k]) = <<97, 114, 101, 97, 58>>[k]

\* what follows the tag, trimmed
TagRemainder(l) == strip(SubSeq(Unprefixed(l), 6, Len(Unprefixed(l))))

\* the positions among the first 30 of the lines ls that hold a tag line
TagLinesAt(ls) == {i \in 1..Len(ls) : i <= 30 /\ HasTag(ls[i])}

\* the tag lines among them that name an area
NamedAt(ls) == {i \in TagLinesAt(ls) : TagRemainder(ls[i]) # <<>>}

\* the result the positions w of the lines ls stand for: the remainder of the
\* first of them, None when there is none
FirstOf(ls, w) ==
    IF w = {} THEN None
    ELSE TagRemainder(ls[CHOOSE i \in w : \A j \in w : i <= j])

\* C12 as claimed: extract_echo returns the trimmed remainder of the first
\* tag line among the first 30 lines, and None when that window holds no tag
\* line.
C12_FirstTagLineInWindow ==
    "echo" \in bpc =>
        \A ls \in {splitlines(body)} : body_echo = FirstOf(ls, TagLinesAt(ls))

\* C12 as amended: extract_echo returns the trimmed remainder of the first
\* tag line among the first 30 lines whose trimmed remainder is not empty,
\* and None when that window holds no such line; tag lines behind it and
\* tag lines from position 31 on make no difference.
C12_FirstNamedTagLineInWindow ==
    "echo" \in bpc =>
        \A ls \in {splitlines(body)} : body_echo = FirstOf(ls, NamedAt(ls))

\* line 30 is "^AAREA:B" and is found, line 31 is "AREA:A" and is ignored
C12_Witness ==
    /\ "echo" \in bpc
    /\ \E ls \in {splitlines(body)} :
         /\ Len(ls) = 31
         /\ TagLinesAt(ls) = {30} /\ HasTag(ls[31])
         /\ ls[30][1] = 1
    /\ body_echo = <<66>>

(***************************************************************************)
(* Further properties of the decoder, specification SpecDecode.            *)
(***************************************************************************)

\* the loop stands before a non-zero marker whose message fits into the
\* buffer
BeforeMessage ==
    /\ dpc = "loop" /\ off + 2 <= Len(data)
    /\ data[off + 1] + 256 * data[off + 2] # 0
    /\ ~TruncatedAt(data, off)

\* the date field of the message whose marker is at the cursor: the bytes
\* from behind the 20-byte block up to the first NUL
DateField ==
    SubSeq(data, off + 23,
           CHOOSE e \in (off + 22)..Len(data) :
               /\ \A i \in (off + 23)..e : data[i] # 0
               /\ e < Len(data) /\ data[e + 1] = 0)

\* the dict the step appended to results
Appended == results'[Len(results')]

\* s is 19 characters "dddd-dd-dd dd:dd:dd"
IsoShape(s) ==
    /\ Len(s) = 19
    /\ \A i \in 1..19 :
         CASE i \in {5, 8} -> s[i] = 45
           [] i = 11 -> s[i] = 32
           [] i \in {14, 17} -> s[i] = 58
           [] OTHER -> s[i] \in Digits

\* what every known layout has: a digit first, a digit last, two colons
\* and a month name of three letters
LayoutShape(s) ==
    /\ Len(s) >= 14 /\ s[1] \in Digits /\ s[Len(s)] \in Digits
    /\ Cardinality({i \in 1..Len(s) : s[i] = 58}) = 2
    /\ \E i \in 1..(Len(s) - 2) : MonthAt(s, i) # 0

\* C13 as claimed: a message that fits into the buffer is decoded whatever
\* its date field holds, its date_iso is None when the field has the shape
\* of no layout, and the date_raw of its record is the date field verbatim.
C13_DateRawVerbatim ==
    [][BeforeMessage =>
          /\ dpc' = "loop" /\ Len(results') = Len(results) + 1
          /\ ~LayoutShape(strip(DateField)) => Appended.date_iso = None
          /\ Appended.date_raw = DateField]_vars

\* C13 as amended: a message that fits into the buffer is decoded whatever
\* its date field holds, its date_iso is None when the field has the shape
\* of no layout and a timestamp "YYYY-MM-DD HH:MM:SS" otherwise, the
\* normalizer hands the field back verbatim, and the date_raw of the record
\* is the date field without its leading and trailing whitespace.
C13_DateRawStripped ==
    [][BeforeMessage =>
          /\ dpc' = "loop" /\ Len(results') = Len(results) + 1
          /\ ~LayoutShape(strip(DateField)) => Appended.date_iso = None
          /\ Appended.date_iso # None => IsoShape(Appended.date_iso)
          /\ parse_fido_datetime(DateField)[2] = DateField
          /\ Appended.date_raw = strip(DateField)
          /\ Appended.date_raw # <<>> =>
                 /\ Appended.date_raw[1] \notin Whitespace
                 /\ Appended.date_raw[Len(Appended.date_raw)] \notin Whitespace]_vars

\* two messages were decoded: the date field " 9 " of the first matches no
\* layout, the date field " 1 Feb 2024 03:04:05 " of the second does
C13_Witness ==
    /\ dpc \in {"eod", "zero"} /\ Len(results) = 2
    /\ results[1].date_iso = None /\ results[1].date_raw = <<57>>
    /\ results[2].date_iso =
           <<50, 48, 50, 52, 45, 48, 50, 45, 48, 49, 32, 48, 51, 58, 48, 52, 58, 48, 53>>
    /\ results[2].date_raw = strip(MsgD.date) /\ results[2].date_raw # MsgD.date

(***************************************************************************)
(* Termination of the decoder.  parse_pkt_file is straight-line code in    *)
(* one thread: nothing can keep a step that is possible from being taken,  *)
(* which is weak fairness of the decoder's steps.                          *)
(***************************************************************************)

\* parse_pkt_file(pkt_path) was called and has not read the file
DCalled ==
    /\ pkt_path \in Paths
    /\ data = <<>> /\ off = 0 /\ results = <<>> /\ msg_index = 0
    /\ dpc = "called" /\ ret = NotReturned
    /\ MainIdle /\ BodyIdle /\ ToolsIdle

\* data = pkt_path.read_bytes()
DRead ==
    /\ dpc = "called"
    /\ data' \in Buffers /\ dpc' = "start"
    /\ UNCHANGED <<pkt_path, off, results, msg_index, ret>>
    /\ UNCHANGED mvars
    /\ UNCHANGED <<bvars, tvars, cvars>>

DLiveNext == DRead \/ DNext

SpecDecodeLive == DCalled /\ [][DLiveNext]_vars /\ WF_vars(DLiveNext)

\* the function was left: by a break or by an exception
DLeft == dpc \in {"eod", "zero", "error"}

\* the errors the loop raises
FormatErrors ==
    {"truncated message header", "Missing NUL terminator in PKT string",
     "message body missing terminator"}

\* the loop is entered with the cursor behind the header
CursorStartsAtHeaderEnd ==
    (dpc = "start" /\ dpc' = "loop") => off' = PKT_HDR_LEN

\* the bytes of the shortest message: the marker, the 20-byte block and the
\* terminators of the four text fields and of the body
MinMessageLen == 27

\* an iteration that appended a message left the cursor inside the buffer,
\* behind the bytes of that message
CursorInsideAfterMessage ==
    (dpc = "loop" /\ Len(results') = Len(results) + 1) =>
        (dpc' = "loop" /\ off' >= off + MinMessageLen /\ off' <= Len(data))

\* the loop is left by the zero marker, at the end of the data, or by one
\* of the format errors, and by nothing else
LeftAsDescribed ==
    DLeft =>
        \/ dpc = "zero" /\ ret.ok
        \/ dpc = "eod" /\ ret.ok /\ AtEnd(data, off)
        \/ dpc = "error" /\ ~ret.ok /\ ret.err \in FormatErrors \cup {TooSmall.err}

\* C21 as claimed: the decode loop terminates on every buffer: the cursor
\* starts at 58, is strictly greater after every iteration of the loop than
\* before it, is at most the buffer length after a decoded message, and the
\* loop ends by the zero marker, the end of the data or a format error.
C21_CursorIncreasesEveryIteration ==
    /\ [][/\ CursorStartsAtHeaderEnd
          /\ CursorInsideAfterMessage
          /\ dpc = "loop" => off' > off]_vars
    /\ []LeftAsDescribed
    /\ <>DLeft

\* C21 as amended: the same, but the iteration that ends the loop at the
\* end of the data (off + 2 > len(data)) leaves the cursor where it was;
\* every other iteration (a decoded message, the zero marker, a format
\* error) leaves it strictly greater, and never beyond the buffer length.
C21_CursorIncreasesUnlessAtEnd ==
    /\ [][/\ CursorStartsAtHeaderEnd
          /\ CursorInsideAfterMessage
          /\ dpc = "loop" =>
                 \/ dpc' = "eod" /\ AtEnd(data, off) /\ off' = off
                 \/ /\ dpc' \in {"loop", "zero", "error"} /\ ~AtEnd(data, off)
                    /\ off' > off /\ off' <= Len(data)]_vars
    /\ []LeftAsDescribed
    /\ <>DLeft

\* two messages were decoded and the loop ended at the end of the data with
\* the cursor on the buffer length
C21_Witness ==
    /\ dpc = "eod" /\ Len(results) = 2 /\ msg_index = 2
    /\ off = Len(data) /\ off > PKT_HDR_LEN /\ ret.ok

(***************************************************************************)
(* The programs that open one store file: the indexer (init_db), the       *)
(* report generator (main of src/pkt_report.py) and the inspection tool    *)
(* (main of src/pkt_db_check.py).  The store they find is new, of the      *)
(* current schema, or older: without msg_lines and/or pct_quoted, without  *)
(* the table meta, without the row schema_version, or with the marker '1'. *)
(***************************************************************************)

\* a store that holds table pkt_messages with the columns AllCols \ lacking
TableStore(lacking, has_meta, version) ==
    [exists |-> TRUE, cols |-> AllCols \ lacking, unique |-> TRUE,
     has_meta |-> has_meta, version |-> version]

\* what the report generator leaves of a file that held no store
MetaOnlyStore ==
    [exists |-> FALSE, cols |-> {}, unique |-> FALSE, has_meta |-> TRUE,
     version |-> "1"]

StoreSchemas ==
    {NoStore, MetaOnlyStore}
      \cup {TableStore(l, FALSE, NoVersion) : l \in SUBSET {"msg_lines", "pct_quoted"}}
      \cup {TableStore(l, TRUE, v) :
              l \in SUBSET {"msg_lines", "pct_quoted"}, v \in {NoVersion, "1", "2"}}

\* r[c] for the columns c of cols
RestrictRow(r, cols) == [c \in cols |-> r[c]]

\* rows an earlier import has stored: the two messages of PktTwo under a.pkt
StoredRows ==
    {Row(ParsedFile["a.pkt", PktTwo].records[k], k, 0) : k \in 1..2}

\* the row sets a store of schema sch may hold
RowSets(sch) ==
    IF sch.exists THEN {{RestrictRow(r, sch.cols) : r \in rs} : rs \in SUBSET StoredRows}
    ELSE {{}}

\* INSERT OR IGNORE INTO meta VALUES ('schema_version', '1') behind
\* CREATE TABLE IF NOT EXISTS meta
ReportMetaMutant(sch) == [sch EXCEPT !.has_meta = TRUE, !.version = "1"]
ReportMeta(sch) ==
    [sch EXCEPT !.has_meta = TRUE,
                !.version = IF sch.has_meta /\ sch.version # NoVersion
                            THEN sch.version ELSE "1"]

Snapshot == [schema |-> schema, rows |-> rows]

SInit ==
    /\ schema \in StoreSchemas
    /\ rows \in RowSets(schema)
    /\ seq = IF rows = {} THEN 0 ELSE CHOOSE n \in 1..2 : \A r \in rows : r.id <= n
    /\ tool = "none" /\ before = [schema |-> schema, rows |-> rows]
    /\ ipc = "idle" /\ rpc = "idle" /\ lock = "none" /\ txn = NoStore
    /\ marks = <<schema.version>>
    /\ fs = [p \in Paths |-> Absent]
    /\ now = 1 /\ pc = "idle" /\ args = NoArgs /\ pkt_files = <<>> /\ idx = 0
    /\ totals = NoTotals /\ log = <<>> /\ events = 0 /\ imported = {}
    /\ DecodeIdle /\ BodyIdle

\* the indexer opens the store: conn = init_db(db_path)
IndexerOpen ==
    /\ schema' = init_db(schema)
    /\ rows' = MigrateRows(rows, schema)
    /\ tool' = "indexer" /\ before' = Snapshot
    /\ UNCHANGED <<fs, seq, now, pc, args, pkt_files, idx, totals, log, events, imported>>
    /\ UNCHANGED <<dvars, bvars, cvars>>

\* the report generator runs: it creates table meta and the marker when they
\* are missing, commits, and from then on reads
ReportRun ==
    /\ schema' = ReportMeta(schema)
    /\ tool' = "report" /\ before' = Snapshot
    /\ UNCHANGED <<fs, rows, seq, now, pc, args, pkt_files, idx, totals, log, events,
                   imported>>
    /\ UNCHANGED <<dvars, bvars, cvars>>

\* the inspection tool runs: it leaves when there is no file, else it reads
CheckRun ==
    /\ tool' = "check" /\ before' = Snapshot
    /\ UNCHANGED <<fs, rows, seq, schema, now, pc, args, pkt_files, idx, totals, log,
                   events, imported>>
    /\ UNCHANGED <<dvars, bvars, cvars>>

SNext == IndexerOpen \/ ReportRun \/ CheckRun

SpecStore == SInit /\ [][SNext]_vars

(***************************************************************************)
(* Properties of the store under the programs that open it, specification  *)
(* SpecStore.                                                              *)
(***************************************************************************)

\* every row of rs is in rs2 with the values it had, and with NULL in the
\* columns it did not have; rs2 holds no other row
RowsKept(rs, rs2) ==
    /\ Cardinality(rs2) = Cardinality(rs)
    /\ \A r \in rs :
         \E r2 \in rs2 :
             /\ DOMAIN r \subseteq DOMAIN r2
             /\ \A c \in DOMAIN r : r2[c] = r[c]
             /\ \A c \in DOMAIN r2 \ DOMAIN r : r2[c] = None

\* C14: after init_db, whatever store it found (none, an older one, a
\* current one), table pkt_messages has the columns msg_lines and
\* pct_quoted and every column it had, the marker schema_version is '2',
\* and the rows are the rows found; an init_db that follows an init_db
\* changes nothing.
C14_OpenMigratesOnceAndKeepsRows ==
    /\ [](tool = "indexer" =>
            /\ schema.exists /\ schema.unique /\ schema.has_meta
            /\ schema.cols = before.schema.cols \cup
                   (IF before.schema.exists THEN {"msg_lines", "pct_quoted"} ELSE AllCols)
            /\ schema.version = "2"
            /\ RowsKept(before.rows, rows))
    /\ [][(tool = "indexer" /\ tool' = "indexer") =>
             (schema' = schema /\ rows' = rows /\ seq' = seq)]_vars

\* init_db found a store of two rows without the column pct_quoted (the row
\* of the message with a quoted line holds NULL there), and a second init_db
\* followed
C14_Witness ==
    /\ tool = "indexer" /\ before.schema = schema /\ before.rows = rows
    /\ schema.version = "2" /\ Cardinality(rows) = 2
    /\ \E r \in rows :
         r.msg_index = 0 /\ r.size_bytes = 13 /\ r.pct_quoted = None

\* C15 as claimed: a run of the report generator or of the inspection tool
\* leaves the schema, the rows and the metadata of the store as they were.
C15_ToolsLeaveStoreUnchanged ==
    tool \in {"report", "check"} => (schema = before.schema /\ rows = before.rows)

\* C15 as amended: a run of the inspection tool leaves the store as it was;
\* a run of the report generator leaves table pkt_messages and its rows as
\* they were, and the metadata too when the store holds a schema_version
\* marker; in a store without one it creates table meta when missing and
\* stores the marker '1'.
C15_ReportWritesOnlyMissingMarker ==
    /\ tool = "check" => (schema = before.schema /\ rows = before.rows)
    /\ tool = "report" =>
         /\ rows = before.rows
         /\ schema.exists = before.schema.exists /\ schema.cols = before.schema.cols
         /\ schema.unique = before.schema.unique
         /\ schema.has_meta
         /\ before.schema.version # NoVersion => schema = before.schema
         /\ before.schema.version = NoVersion => schema.version = "1"

\* the report generator ran on a store of two rows that held no table meta
C15_Witness ==
    /\ tool = "report" /\ Cardinality(rows) = 2 /\ rows = before.rows
    /\ ~before.schema.has_meta /\ schema.has_meta /\ schema.version = "1"

(***************************************************************************)
(* Further properties of the import run, specification Spec.               *)
(***************************************************************************)

\* the keys 0 .. n-1 of file p that the store holds
StoredKeys(p, n) ==
    {k \in 0..(n - 1) : \E r \in rows : r.pkt_file = p /\ r.msg_index = k}

\* the step decodes the current file and insert_messages returns
InsertStep ==
    /\ InLoop /\ ~args.test /\ ParsedFile[Cur, fs[Cur]].ok
    /\ Len(log') = Len(log) + 1 /\ Inserted(log'[Len(log')])

\* C16 as claimed: the number of rows inserted for a file is 0 or the number
\* of records decoded from it.
C16_NoPartialInsertion ==
    InRun =>
        \A i \in 1..Len(log) :
            Inserted(log[i]) => log[i].inserted \in {0, log[i].msgs}

\* C16 as amended: the rows inserted for a file are the rows of its decoded
\* records whose key the store did not hold; their number is strictly
\* between 0 and the number of decoded records exactly when the store held
\* some, but not all, of the file's keys.
C16_PartialIffSomeKeysStored ==
    [][InsertStep =>
          \A n \in {Len(ParsedFile[Cur, fs[Cur]].records)} :
              /\ rows \subseteq rows'
              /\ \A r \in rows' \ rows :
                     /\ r.pkt_file = Cur /\ r.msg_index \in 0..(n - 1)
                     /\ r.msg_index \notin StoredKeys(Cur, n)
              /\ Cardinality(rows' \ rows) = n - Cardinality(StoredKeys(Cur, n))
              /\ log'[Len(log')].inserted = Cardinality(rows' \ rows)
              /\ (0 < Cardinality(rows' \ rows) /\ Cardinality(rows' \ rows) < n)
                   <=> (0 < Cardinality(StoredKeys(Cur, n))
                        /\ Cardinality(StoredKeys(Cur, n)) < n)]_vars

\* a file of one message was imported, then a file of two messages came
\* under the same path: one of two records was inserted
C16_Witness ==
    /\ pc = "done" /\ ~args.test
    /\ \E i \in 1..Len(log) :
         /\ Inserted(log[i]) /\ log[i].msgs = 2 /\ log[i].inserted = 1
         /\ fs[log[i].file] = PktTwo
         /\ {r.msg_index : r \in InsertedBefore(log[i].file)} = {0}
         /\ {r.msg_index : r \in InsertedNow(log[i].file)} = {1}

\* C19: when unlink raises for a file that was imported in full, the rows of
\* the file are in the store, the line printed for the file is a [WARN]
\* line, the file is still in the folder, and main() goes on with the next
\* file.
C19_DeleteFailureIsWarning ==
    [][(InLoop /\ Len(log') = Len(log) + 1 /\ log'[Len(log')].err = "OSError") =>
          /\ log'[Len(log')].tag = "WARN" /\ log'[Len(log')].file = Cur
          /\ log'[Len(log')].inserted = log'[Len(log')].msgs
          /\ rows \subseteq rows'
          /\ Cardinality({r \in rows' : r.pkt_file = Cur /\ r.imported_at = now})
                 = log'[Len(log')].msgs
          /\ fs' = fs
          /\ pc' = "loop" /\ idx' = idx + 1]_vars

\* unlink raised for the first file, whose message is in the store, and the
\* second file was imported and removed
C19_Witness ==
    /\ pc = "done" /\ args.delete /\ Len(log) = 2
    /\ log[1].tag = "WARN" /\ log[1].msgs = 1 /\ Present(log[1].file)
    /\ Cardinality(InsertedNow(log[1].file)) = 1
    /\ log[2].tag = "OK_DELETED" /\ log[2].msgs = 2 /\ ~Present(log[2].file)
    /\ Cardinality(InsertedNow(log[2].file)) = 2

\* C20: a run in test mode, with or without --delete, leaves the store (its
\* schema, rows and key counter) and the folder as they are; when it ends,
\* every file of the folder has its line: the listing of its messages, or
\* the [ERROR] line with the failure of its decode.
C20_TestModeWritesNothing ==
    /\ [][(args'.test /\ pc' \in {"loop", "done"}) =>
             (rows' = rows /\ seq' = seq /\ schema' = schema /\ fs' = fs)]_vars
    /\ []((pc = "done" /\ args.test) =>
            /\ pkt_files = sorted_glob /\ Len(log) = Len(pkt_files)
            /\ \A i \in 1..Len(log) :
                 /\ log[i].file = pkt_files[i]
                 /\ \A r \in {ParsedFile[pkt_files[i], fs[pkt_files[i]]]} :
                        IF r.ok
                        THEN log[i].tag = "TEST" /\ log[i].msgs = Len(r.records)
                        ELSE log[i].tag = "ERROR" /\ log[i].err = r.err)

\* a run with --test --delete on a folder of two files, the first cut inside
\* a message, the second of two messages: both are still there and no store
\* was ever created
C20_Witness ==
    /\ pc = "done" /\ args.test /\ args.delete
    /\ schema = NoStore /\ rows = {}
    /\ Len(log) = 2 /\ Present(log[1].file) /\ Present(log[2].file)
    /\ log[1].tag = "ERROR" /\ fs[log[1].file] = PktCut1
    /\ log[2].tag = "TEST" /\ log[2].msgs = 2

(***************************************************************************)
(* Properties of the decoder on the packet header, specification           *)
(* SpecDecode.                                                             *)
(***************************************************************************)

\* the buffer is a header and a zero marker behind it
HeaderAndZeroMarker ==
    /\ Len(data) = PKT_HDR_LEN + 2
    /\ data[PKT_HDR_LEN + 1] = 0 /\ data[PKT_HDR_LEN + 2] = 0

\* the buffer with the bytes of its header replaced by 7
OtherHeader(d) == [i \in 1..Len(d) |-> IF i <= 58 THEN 7 ELSE d[i]]

\* C17: a buffer of 58 header bytes and a zero marker behind them decodes,
\* in one loop iteration, to the empty list without an error, whatever the
\* header bytes are.
C17_HeaderThenZeroMarkerIsEmpty ==
    HeaderAndZeroMarker =>
        /\ dpc \in {"start", "loop", "zero"}
        /\ dpc = "loop" => (off = 58 /\ results = <<>>)
        /\ dpc = "zero" =>
               (off = 60 /\ ret = [ok |-> TRUE, records |-> <<>>, err |-> NoError])

\* the header bytes 1, 2, ..., 58 and the zero marker were decoded
C17_Witness ==
    /\ HeaderAndZeroMarker /\ dpc = "zero"
    /\ \A i \in 1..58 : data[i] = i
    /\ ret.ok /\ ret.records = <<>>

\* C18: a buffer of fewer than 58 bytes makes parse_pkt_file raise, with no
\* record for its caller; for a buffer of 58 bytes or more the error is
\* never that the buffer is too small, and the outcome (the records or the
\* error) is the outcome for the same buffer with any other header bytes.
C18_ShortBufferFailsHeaderIsIgnored ==
    /\ Len(data) < 58 =>
           /\ dpc \in {"start", "error"} /\ results = <<>>
           /\ dpc = "error" => (~ret.ok /\ ret.records = <<>> /\ ret = TooSmall)
    /\ Len(data) >= 58 =>
           /\ dpc # "start" => off >= 58
           /\ dpc \in {"eod", "zero", "error"} =>
                  /\ ret # TooSmall
                  /\ parse_pkt_file(pkt_path, OtherHeader(data)) = ret

\* a buffer of 57 bytes was rejected
C18_Witness == Len(data) = 57 /\ dpc = "error" /\ ret = TooSmall /\ results = <<>>

(***************************************************************************)
(* init_db and the report generator as two processes on one store file,    *)
(* one SQL statement per step.  The statements of executescript, the       *)
(* PRAGMA/ALTER TABLE statements and CREATE TABLE run in autocommit mode;   *)
(* the sqlite3 module opens a transaction before an INSERT or UPDATE and   *)
(* conn.commit() ends it.  SQLite lets one connection write at a time: a   *)
(* statement that writes waits while the other connection's transaction is *)
(* open, and raises "database is locked" when the wait times out.          *)
(***************************************************************************)

\* CREATE TABLE IF NOT EXISTS pkt_messages and the CREATE INDEX statements
CreateTables(sch) ==
    [sch EXCEPT !.exists = TRUE,
                !.cols = IF sch.exists THEN sch.cols ELSE AllCols,
                !.unique = TRUE]

\* CREATE TABLE IF NOT EXISTS meta
CreateMeta(sch) == [sch EXCEPT !.has_meta = TRUE]

\* INSERT OR IGNORE INTO meta (key, value) VALUES ('schema_version', v)
SeedVersionMutant(sch, v) == [sch EXCEPT !.version = v]
SeedVersion(sch, v) ==
    [sch EXCEPT !.version = IF sch.version = NoVersion THEN v ELSE sch.version]

\* UPDATE meta SET value = '2' WHERE key = 'schema_version'
UpdateVersion(sch) ==
    [sch EXCEPT !.version = IF sch.version = NoVersion THEN NoVersion ELSE "2"]

\* the marker history after the committed marker became v
Marked(ms, v) == IF ms[Len(ms)] = v THEN ms ELSE Append(ms, v)

\* what a statement of either process leaves alone
StatementFrame ==
    /\ UNCHANGED <<fs, seq, now, pc, args, pkt_files, idx, totals, log, events, imported>>
    /\ UNCHANGED <<dvars, bvars>>

\* a CREATE ... IF NOT EXISTS or ALTER TABLE statement in autocommit mode
\* that leaves the store as sch: it writes, and needs the lock, only when
\* what it creates is not there
Definition(sch) ==
    /\ lock = "none" \/ sch = schema
    /\ schema' = sch
    /\ UNCHANGED <<lock, txn, marks>>

\* an INSERT in autocommit mode that leaves the store as sch: it takes the
\* lock even when the row is ignored
Autocommit(sch) ==
    /\ lock = "none"
    /\ schema' = sch /\ marks' = Marked(marks, sch.version)
    /\ UNCHANGED <<lock, txn>>

\* the store after the statement init_db is at, for the statements that
\* define tables, indexes and columns
IDefined ==
    IF ipc = "tables" THEN CreateTables(schema)
    ELSE IF ipc = "meta" THEN CreateMeta(schema)
    ELSE IF ipc = "alter" THEN AddColumns(schema)
    ELSE schema

\* conn = sqlite3.connect(str(db_path)) of init_db
IConnect ==
    /\ ipc = "idle" /\ ipc' = "tables"
    /\ tool' = "indexer" /\ before' = Snapshot
    /\ UNCHANGED <<schema, rows, rpc, lock, txn, marks>>
    /\ StatementFrame

\* executescript: CREATE TABLE pkt_messages, CREATE [UNIQUE] INDEX (three)
ITables ==
    /\ ipc = "tables" /\ ipc' = "meta"
    /\ Definition(CreateTables(schema))
    /\ UNCHANGED <<rows, rpc, tool, before>>
    /\ StatementFrame

\* executescript: CREATE TABLE IF NOT EXISTS meta
IMeta ==
    /\ ipc = "meta" /\ ipc' = "seed"
    /\ Definition(CreateMeta(schema))
    /\ UNCHANGED <<rows, rpc, tool, before>>
    /\ StatementFrame

\* executescript: INSERT OR IGNORE ... ('schema_version', '2')
ISeed ==
    /\ ipc = "seed" /\ ipc' = "alter"
    /\ Autocommit(SeedVersion(schema, "2"))
    /\ UNCHANGED <<rows, rpc, tool, before>>
    /\ StatementFrame

\* PRAGMA table_info and ALTER TABLE ADD COLUMN for the columns not found
IAlter ==
    /\ ipc = "alter" /\ ipc' = "insert"
    /\ Definition(AddColumns(schema))
    /\ rows' = {ExtendRow(r, AddColumns(schema).cols) : r \in rows}
    /\ UNCHANGED <<rpc, tool, before>>
    /\ StatementFrame

\* cur.execute(INSERT OR IGNORE ... '2'): opens the transaction
IInsert ==
    /\ ipc = "insert" /\ ipc' = "update"
    /\ lock = "none" /\ lock' = "indexer"
    /\ txn' = SeedVersion(schema, "2")
    /\ UNCHANGED <<schema, rows, rpc, tool, before, marks>>
    /\ StatementFrame

\* cur.execute(UPDATE meta SET value = '2' ...)
IUpdate ==
    /\ ipc = "update" /\ ipc' = "commit"
    /\ lock = "indexer"
    /\ txn' = UpdateVersion(txn)
    /\ UNCHANGED <<schema, rows, rpc, lock, tool, before, marks>>
    /\ StatementFrame

\* conn.commit(); return conn
ICommit ==
    /\ ipc = "commit" /\ ipc' = "done"
    /\ lock = "indexer" /\ lock' = "none"
    /\ schema' = txn /\ txn' = NoStore /\ marks' = Marked(marks, txn.version)
    /\ UNCHANGED <<rows, rpc, tool, before>>
    /\ StatementFrame

\* a statement of init_db that writes timed out waiting for the report
\* generator's transaction: sqlite3.OperationalError leaves init_db
IBusy ==
    /\ lock = "report"
    /\ ipc \in {"seed", "insert"} \/ IDefined # schema
    /\ ipc' = "failed"
    /\ UNCHANGED <<schema, rows, rpc, lock, txn, tool, before, marks>>
    /\ StatementFrame

\* the indexer's process has ended; a later run may open the store again
IExit ==
    /\ ipc \in {"done", "failed"} /\ ipc' = "idle"
    /\ UNCHANGED <<schema, rows, rpc, lock, txn, tool, before, marks>>
    /\ StatementFrame

\* conn = sqlite3.connect(args.db) of the report generator
RConnect ==
    /\ rpc = "idle" /\ rpc' = "create"
    /\ tool' = "report" /\ before' = Snapshot
    /\ UNCHANGED <<schema, rows, ipc, lock, txn, marks>>
    /\ StatementFrame

\* cur.execute(CREATE TABLE IF NOT EXISTS meta ...)
RCreate ==
    /\ rpc = "create" /\ rpc' = "insert"
    /\ Definition(CreateMeta(schema))
    /\ UNCHANGED <<rows, ipc, tool, before>>
    /\ StatementFrame

\* cur.execute(INSERT OR IGNORE ... '1'): opens the transaction
RInsert ==
    /\ rpc = "insert" /\ rpc' = "commit"
    /\ lock = "none" /\ lock' = "report"
    /\ txn' = SeedVersion(schema, "1")
    /\ UNCHANGED <<schema, rows, ipc, tool, before, marks>>
    /\ StatementFrame

\* conn.commit()
RCommit ==
    /\ rpc = "commit" /\ rpc' = "read"
    /\ lock = "report" /\ lock' = "none"
    /\ schema' = txn /\ txn' = NoStore /\ marks' = Marked(marks, txn.version)
    /\ UNCHANGED <<rows, ipc, tool, before>>
    /\ StatementFrame

\* the SELECT statements (or SystemExit when there is no table pkt_messages)
RRead ==
    /\ rpc = "read" /\ rpc' = "done"
    /\ UNCHANGED <<schema, rows, ipc, lock, txn, tool, before, marks>>
    /\ StatementFrame

\* a statement of the report generator that writes timed out waiting for
\* init_db's transaction
RBusy ==
    /\ lock = "indexer"
    /\ rpc = "insert" \/ (rpc = "create" /\ CreateMeta(schema) # schema)
    /\ rpc' = "failed"
    /\ UNCHANGED <<schema, rows, ipc, lock, txn, tool, before, marks>>
    /\ StatementFrame

\* the report generator's process has ended
RExit ==
    /\ rpc \in {"done", "failed"} /\ rpc' = "idle"
    /\ UNCHANGED <<schema, rows, ipc, lock, txn, tool, before, marks>>
    /\ StatementFrame

CNext ==
    \/ IConnect \/ ITables \/ IMeta \/ ISeed \/ IAlter \/ IInsert \/ IUpdate
    \/ ICommit \/ IBusy \/ IExit
    \/ RConnect \/ RCreate \/ RInsert \/ RCommit \/ RRead \/ RBusy \/ RExit

SpecStatements == SInit /\ [][CNext]_vars

(***************************************************************************)
(* Properties of the marker under interleaved statements, specification    *)
(* SpecStatements.                                                         *)
(***************************************************************************)

\* the order of the marker values: no marker, '1', '2'
Rank(v) == IF v = NoVersion THEN 0 ELSE IF v = "1" THEN 1 ELSE 2

\* run without the other process in between, the statements of init_db and
\* of the report generator have the effect of init_db and ReportMeta
StatementsMakeRuns ==
    \A sch \in StoreSchemas :
        /\ init_db(sch) =
               UpdateVersion(SeedVersion(AddColumns(
                   SeedVersion(CreateMeta(CreateTables(sch)), "2")), "2"))
        /\ ReportMeta(sch) = SeedVersion(CreateMeta(sch), "1")

\* C22: under any interleaving of the statements of init_db and of the
\* report generator on one store, no step lowers the schema_version marker
\* (a marker '2' stays '2', a marker is never removed), the marker becomes
\* '1' only by the report generator's commit on a store that held no
\* marker, and whenever init_db has returned the marker is '2'.
C22_MarkerNeverLowered ==
    /\ [][/\ Rank(schema'.version) >= Rank(schema.version)
          /\ (schema'.version = "1" /\ schema.version # "1") =>
                 (rpc = "commit" /\ rpc' = "read" /\ schema.version = NoVersion)
          /\ (rpc = "commit" /\ rpc' = "read" /\ schema.version # NoVersion) =>
                 schema'.version = schema.version
          /\ (ipc = "commit" /\ ipc' = "done") => schema'.version = "2"]_vars
    /\ [](ipc = "done" => schema.version = "2")
    /\ [](\A i \in 1..(Len(marks) - 1) : Rank(marks[i]) < Rank(marks[i + 1]))

\* init_db was called on a store without marker (the report generator had
\* connected before it); while init_db ran, the report generator committed
\* its '1', so that the seed of executescript was ignored; init_db has
\* returned and the marker is '2'
C22_Witness ==
    /\ ipc = "done" /\ tool = "indexer" /\ rpc \in {"read", "done"}
    /\ before.schema.version = NoVersion
    /\ marks = <<NoVersion, "1", "2">>
    /\ schema.version = "2"

====
